---- MODULE Spec2Model ----
(***************************************************************************)
(* Model of the result-acquisition and aggregation pipeline of             *)
(* benchmark.py: wait_for_pods_to_finish (the polling loop),               *)
(* extract_relevant_log_lines / extract_benchmark_results_from_pod_log     *)
(* (the log grammar) and collect_benchmark_results (the aggregation),      *)
(* with the part of __main__ that sequences them.                          *)
(***************************************************************************)
EXTENDS Integers, Sequences, FiniteSets, TLC

(***************************************************************************)
(* Bounds of the model and constants of the program.                       *)
(***************************************************************************)
\* number of pods handed to wait_for_pods_to_finish (one per node pool)
NumPods == 3

RETRY_INTERVAL_SECONDS == 30
MAX_TIMEOUT_SECONDS == 5400

\* variant of MaxAttempts: range(MAX_TIMEOUT_SECONDS // RETRY_INTERVAL_SECONDS + 1)
MaxAttemptsPlusOne == MAX_TIMEOUT_SECONDS \div RETRY_INTERVAL_SECONDS + 1

\* range(MAX_TIMEOUT_SECONDS // RETRY_INTERVAL_SECONDS)
MaxAttempts == MAX_TIMEOUT_SECONDS \div RETRY_INTERVAL_SECONDS

\* the phases the status call reports; only Succeeded and Failed are terminal
Phases == {"Running", "Succeeded", "Failed"}

VARIABLES
    \* ---- wait_for_pods_to_finish and the driver around it
    pc,                \* position of the driver / of the polling loop
    attempt,           \* number of iterations of the for loop entered so far
    pod_statuses,      \* the statuses appended in the current iteration
    first_failed_pod,  \* index into pods of first_failed_pod, 0 when unset
    failed_pod_log,    \* the log read for first_failed_pod, <<>> when unset
    log_reads,         \* the pods whose log was read, in call order
    raised,            \* the exception raised by wait, <<>> when none
    observedTerminal,  \* history: pods some earlier status call of this
                       \* invocation reported Succeeded or Failed
    \* ---- extract_benchmark_results_from_pod_log, called on one log
    pod_log,           \* the log handed in, as pod_log.splitlines() gives it
    extract_out,       \* the outcome of the call
    \* ---- collect_benchmark_results and the write of its result
    pod_logs,          \* the mapping handed in: <<node_pool_name, log>> pairs
                       \* in the mapping's iteration order
    normalize,         \* os.getenv(ENV_VAR_NORMALIZED_RESULTS) == "true"
    benchmark_results, \* node_pool_name -> list of BenchmarkResult, as parsed
    tool_names_with_config_sorted,
    benchmark_result_lines,  \* header line and the data lines appended so far
    collect_raised,    \* the exception collect_benchmark_results raised
    csv_file           \* benchmark_results.csv: whether written, and content

waitVars == <<attempt, pod_statuses, first_failed_pod, failed_pod_log,
              log_reads, raised, observedTerminal>>

extractVars == <<pod_log, extract_out>>

collectVars == <<pod_logs, normalize, benchmark_results,
                 tool_names_with_config_sorted, benchmark_result_lines,
                 collect_raised, csv_file>>

vars == <<pc, waitVars, extractVars, collectVars>>

WaitIdle ==
    /\ attempt = 0
    /\ pod_statuses = <<>>
    /\ first_failed_pod = 0
    /\ failed_pod_log = <<>>
    /\ log_reads = <<>>
    /\ raised = <<>>
    /\ observedTerminal = {}

ExtractIdle ==
    /\ pod_log = <<>>
    /\ extract_out = [st |-> "none", val |-> <<>>, err |-> <<>>]

CollectIdle ==
    /\ pod_logs = <<>>
    /\ normalize = FALSE
    /\ benchmark_results = <<>>
    /\ tool_names_with_config_sorted = <<>>
    /\ benchmark_result_lines = <<>>
    /\ collect_raised = <<>>
    /\ csv_file = [written |-> FALSE, content |-> <<>>]

Pods == 1..NumPods

\* what read_namespaced_pod_log returns for pod i: one text per pod
PodLog(i) == <<"log", i>>

(***************************************************************************)
(* wait_for_pods_to_finish                                                 *)
(***************************************************************************)
\* finished_pods = [s in ["Succeeded", "Failed"] for s in pod_statuses]
Finished(s) == s \in {"Succeeded", "Failed"}

\* all(finished_pods)
AllFinished(statuses) == \A i \in 1..Len(statuses) : Finished(statuses[i])

\* any([s == "Failed" for s in pod_statuses])
AnyFailed(statuses) == \E i \in 1..Len(statuses) : statuses[i] = "Failed"

\* variant of RaisesOn: the any() test hoisted out of the all() test
RaisesOnAnyFailed(statuses) == AnyFailed(statuses)

\* the condition under which an iteration raises: the any() test is nested in
\* the all() test
RaisesOn(statuses) == AllFinished(statuses) /\ AnyFailed(statuses)

\* variant of IndexOfFailed: the last occurrence instead of the first
LastIndexOfFailed(statuses) ==
    CHOOSE i \in 1..Len(statuses) :
        /\ statuses[i] = "Failed"
        /\ \A j \in (i+1)..Len(statuses) : statuses[j] # "Failed"

\* pod_statuses.index("Failed"), 1-based: the first occurrence
IndexOfFailed(statuses) ==
    CHOOSE i \in 1..Len(statuses) :
        /\ statuses[i] = "Failed"
        /\ \A j \in 1..(i-1) : statuses[j] # "Failed"

\* variant of PodsToQuery: pods already seen terminal are skipped
PodsNotYetTerminal == Pods \ observedTerminal

\* the pods the inner for loop queries in one iteration: all of them
PodsToQuery == Pods

InitWait ==
    /\ pc = "for"
    /\ attempt = 0
    /\ pod_statuses = <<>>
    /\ first_failed_pod = 0
    /\ failed_pod_log = <<>>
    /\ log_reads = <<>>
    /\ raised = <<>>
    /\ observedTerminal = {}
    /\ ExtractIdle
    /\ CollectIdle

\* for _ in range(...): enter the next iteration, or leave the loop when the
\* range is exhausted; the statement after the loop is the final log line,
\* after which the function returns
ForNext ==
    /\ pc = "for"
    /\ IF attempt < MaxAttempts
       THEN /\ attempt' = attempt + 1
            /\ pod_statuses' = <<>>
            /\ pc' = "poll"
       ELSE /\ pc' = "returned"
            /\ UNCHANGED <<attempt, pod_statuses>>
    /\ UNCHANGED <<first_failed_pod, failed_pod_log, log_reads, raised,
                   observedTerminal, extractVars, collectVars>>

\* one pass of the inner loop: the status of the next pod, in list order
ReadStatus ==
    /\ pc = "poll"
    /\ \E s \in Phases :
         LET i == Len(pod_statuses) + 1 IN
         /\ pod_statuses' = Append(pod_statuses, s)
         /\ observedTerminal' =
                IF Finished(s) THEN observedTerminal \cup {i}
                               ELSE observedTerminal
         /\ pc' = IF \A j \in PodsToQuery : j <= i THEN "check" ELSE "poll"
    /\ UNCHANGED <<attempt, first_failed_pod, failed_pod_log, log_reads,
                   raised, extractVars, collectVars>>

\* the if all(finished_pods) statement
CheckFinished ==
    /\ pc = "check"
    /\ IF RaisesOn(pod_statuses)
       THEN /\ first_failed_pod' = IndexOfFailed(pod_statuses)
            /\ pc' = "read_log"
       ELSE /\ pc' = IF AllFinished(pod_statuses) THEN "returned" ELSE "sleep"
            /\ UNCHANGED first_failed_pod
    /\ UNCHANGED <<attempt, pod_statuses, failed_pod_log, log_reads, raised,
                   observedTerminal, extractVars, collectVars>>

\* read the log of first_failed_pod and raise
ReadLogAndRaise ==
    /\ pc = "read_log"
    /\ LET p == first_failed_pod IN
         /\ failed_pod_log' = PodLog(p)
         /\ log_reads' = Append(log_reads, p)
         /\ raised' = <<"PodFailed", first_failed_pod, PodLog(p)>>
    /\ pc' = "raised"
    /\ UNCHANGED <<attempt, pod_statuses, first_failed_pod, observedTerminal,
                   extractVars, collectVars>>

\* the else branch (progress log line) and time.sleep
Sleep ==
    /\ pc = "sleep"
    /\ pc' = "for"
    /\ UNCHANGED <<attempt, pod_statuses, first_failed_pod, failed_pod_log,
                   log_reads, raised, observedTerminal, extractVars, collectVars>>

\* __main__: wait_for_pods_to_finish returned, get_pod_logs is called next
GetPodLogs ==
    /\ pc = "returned"
    /\ pc' = "get_pod_logs"
    /\ UNCHANGED <<attempt, pod_statuses, first_failed_pod, failed_pod_log,
                   log_reads, raised, observedTerminal, extractVars, collectVars>>

NextWait ==
    \/ ForNext
    \/ ReadStatus
    \/ CheckFinished
    \/ ReadLogAndRaise
    \/ Sleep
    \/ GetPodLogs

SpecWait == InitWait /\ [][NextWait]_vars

\* the loop is one thread of control whose calls (status, log, sleep) return:
\* a step that can be taken is taken
SpecWaitFair == SpecWait /\ WF_vars(NextWait)

(***************************************************************************)
(* Properties of wait_for_pods_to_finish                                   *)
(***************************************************************************)
SomeFailed == \E i \in 1..Len(pod_statuses) : pod_statuses[i] = "Failed"
SomeUnfinished ==
    \E i \in 1..Len(pod_statuses) : pod_statuses[i] \notin {"Succeeded", "Failed"}
RoundComplete == Len(pod_statuses) = NumPods

\* C1 as stated: a round in which some pod is Failed raises in that round, so
\* the loop never goes to sleep (towards a next round) after a round that saw
\* a Failed pod.
C1_RaisesInRoundOfFirstFailure ==
    pc = "sleep" => ~SomeFailed

\* C1 amended: an iteration raises exactly when every pod of that iteration
\* is Succeeded or Failed and at least one is Failed; an iteration with a
\* Failed pod and an unfinished pod does not raise but sleeps and polls again;
\* once raised, no further iteration is entered.
C1_RaisesWhenAllFinishedAndSomeFailed ==
    /\ [](pc \in {"read_log", "raised"} =>
            RoundComplete /\ SomeFailed /\ ~SomeUnfinished)
    /\ [][pc = "check" =>
            /\ (pc' = "read_log") <=> (SomeFailed /\ ~SomeUnfinished)
            /\ (pc' = "sleep") <=> SomeUnfinished]_vars
    /\ [][pc = "raised" => pc' = "raised" /\ attempt' = attempt]_vars

C1_Witness ==
    pc = "sleep" /\ SomeFailed /\ SomeUnfinished /\ attempt < MaxAttempts

\* C2: wait never returns normally, and the driver never goes on to
\* get_pod_logs, while some pod of the last iteration is not terminal.
C2_NoNormalReturnWhileUnfinished ==
    pc \in {"returned", "get_pod_logs"} => RoundComplete /\ ~SomeUnfinished

\* C9 as stated: a pod that an earlier status call reported Succeeded or
\* Failed is not queried again.
C9_TerminalPodNeverQueriedAgain ==
    [][(pc = "poll" /\ Len(pod_statuses') = Len(pod_statuses) + 1)
          => (Len(pod_statuses) + 1) \notin observedTerminal]_vars

\* C9 amended: every iteration queries every pod, those seen terminal before
\* included, and the iteration is decided by the statuses of that iteration
\* alone: a pod seen terminal earlier and reported Running now keeps wait
\* polling.
C9_EveryRoundQueriesEveryPod ==
    /\ [](pc \in {"check", "sleep", "read_log", "raised"} => RoundComplete)
    /\ [][(pc = "check" /\ \E i \in observedTerminal :
                              pod_statuses[i] = "Running")
            => pc' = "sleep"]_vars

C9_Witness ==
    /\ pc = "sleep"
    /\ \E i \in observedTerminal : pod_statuses[i] = "Running"

\* C11: wait terminates (it raises, or returns to the driver), having entered
\* at most MAX_TIMEOUT_SECONDS // RETRY_INTERVAL_SECONDS rounds; it has entered
\* exactly that many when it returns without a round in which every pod was
\* terminal; and a round in which every pod is terminal is the last one.
C11_WaitTerminatesWithinMaxAttempts ==
    /\ [](attempt <= MAX_TIMEOUT_SECONDS \div RETRY_INTERVAL_SECONDS)
    /\ []((pc \in {"returned", "get_pod_logs"} /\ (SomeUnfinished \/ ~RoundComplete))
            => attempt = MAX_TIMEOUT_SECONDS \div RETRY_INTERVAL_SECONDS)
    /\ [][(pc = "check" /\ ~SomeUnfinished)
            => pc' \in {"read_log", "returned"}]_vars
    /\ [][(pc \in {"read_log", "returned", "raised", "get_pod_logs"})
            => (attempt' = attempt /\ pod_statuses' = pod_statuses)]_vars
    /\ <>(pc \in {"raised", "get_pod_logs"})

C11_Witness ==
    /\ pc = "get_pod_logs"
    /\ attempt = MAX_TIMEOUT_SECONDS \div RETRY_INTERVAL_SECONDS
    /\ SomeUnfinished

\* C10: the exception names the Failed pod with the smallest index, carries
\* the log of that pod, and that log read is the only one and comes after all
\* status calls of the iteration.
C10_FirstFailedPodAndItsLog ==
    /\ Len(log_reads) <= 1
    /\ log_reads # <<>> => pc = "raised"
    /\ pc = "raised" =>
          \E k \in Pods :
             /\ pod_statuses[k] = "Failed"
             /\ \A j \in 1..(k-1) : pod_statuses[j] # "Failed"
             /\ raised = <<"PodFailed", k, PodLog(k)>>
             /\ log_reads = <<k>>
             /\ RoundComplete

C10_Witness ==
    /\ pc = "raised"
    /\ Cardinality({i \in 1..Len(pod_statuses) : pod_statuses[i] = "Failed"}) >= 2
    /\ pod_statuses[1] # "Failed"


(***************************************************************************)
(* Outcomes of a call: a value or a raised exception.                      *)
(***************************************************************************)
NotCalled == [st |-> "none", val |-> <<>>, err |-> <<>>]
Returned(v) == [st |-> "ok", val |-> v, err |-> <<>>]
Raised(e) == [st |-> "err", val |-> <<>>, err |-> e]

\* list index out of range: log_lines[i] with i >= len(log_lines)
IndexError == <<"IndexError">>
\* raise ValueError(message): the message's kind and the names it embeds
ValueError(what, node_pool_name) == <<"ValueError", what, node_pool_name>>
ValueErrorAt(what, node_pool_name, line) ==
    <<"ValueError", what, node_pool_name, line>>

(***************************************************************************)
(* Log lines.  A line is its text; a line of the CSV form the record       *)
(* pattern accepts carries the groups the pattern captures.  Strings that  *)
(* are compared or trimmed (tool, config, unit) are sequences of code      *)
(* points.                                                                 *)
(***************************************************************************)
MaxLogLen == 6

MARKER_LINE == "benchmarkresult"

TextLine(t) == [text |-> t, csv |-> <<>>]
CsvLine(testtool, testconfig, resultunit, hib, resultvalue) ==
    [text |-> "csv", csv |-> <<testtool, testconfig, resultunit, hib, resultvalue>>]

TestingLine == TextLine("cpu testing with vm via the Phoronix Test Suite.")
EmptyLine == TextLine("")
VirtualDiskLine == TextLine(" ,,Virtual Disk - cpu")
ProcessorLine == TextLine("Processor,,cpu @ 2.80GHz")

\* "testing" in line
ContainsTesting(line) ==
    line.text \in {"cpu testing with vm via the Phoronix Test Suite."}
\* "Virtual Disk" in line
ContainsVirtualDisk(line) == line.text \in {" ,,Virtual Disk - cpu"}

Min(S) == CHOOSE x \in S : \A y \in S : x <= y

\* extract_relevant_log_lines; index i of the source is index i+1 here
extract_relevant_log_lines(log_lines, node_pool_name) ==
    LET n == Len(log_lines)
        markers == {i \in 1..n : log_lines[i].text = MARKER_LINE}
    IN
    IF markers = {} THEN Raised(ValueError("marker_not_found", node_pool_name))
    ELSE
    LET m == Min(markers) IN
    IF m + 1 > n THEN Raised(IndexError)
    ELSE IF ~ContainsTesting(log_lines[m + 1])
    THEN Raised(ValueError("testing_line_missing", node_pool_name))
    ELSE IF m + 2 > n THEN Raised(IndexError)
    ELSE IF log_lines[m + 2].text # ""
    THEN Raised(ValueError("empty_line_missing", node_pool_name))
    ELSE
    LET empties == {i \in (m + 3)..n : log_lines[i].text = ""} IN
    IF empties = {}
    THEN Raised(ValueError("next_empty_line_not_found", node_pool_name))
    ELSE
    LET e == Min(empties) IN
    IF e + 1 > n THEN Raised(IndexError)
    ELSE IF ~ContainsVirtualDisk(log_lines[e + 1])
    THEN Raised(ValueError("virtual_disk_line_missing", node_pool_name))
    ELSE Returned(SelectSeq(SubSeq(log_lines, e + 2, n),
                            LAMBDA l : l.text # ""))

\* PTS_CSV_REGEX.search(line): whether the line has the CSV form
PTS_CSV_REGEX_matches(line) == line.csv # <<>>

\* str.strip() on a sequence of code points (32 is the space)
RECURSIVE strip(_)
strip(str) ==
    IF str = <<>> THEN str
    ELSE IF Head(str) = 32 THEN strip(Tail(str))
    ELSE IF str[Len(str)] = 32 THEN strip(SubSeq(str, 1, Len(str) - 1))
    ELSE str

BenchmarkResult(vm_type, tool_name, tool_config, result_unit, result_value) ==
    [vm_type |-> vm_type, tool_name |-> tool_name, tool_config |-> tool_config,
     result_unit |-> result_unit, result_value |-> result_value]

\* the for loop of extract_benchmark_results_from_pod_log over relevant_lines
RECURSIVE parse_relevant_lines(_, _, _)
parse_relevant_lines(relevant_lines, node_pool_name, results) ==
    IF relevant_lines = <<>> THEN Returned(results)
    ELSE
    LET line == Head(relevant_lines) IN
    IF ~PTS_CSV_REGEX_matches(line)
    THEN Raised(ValueErrorAt("regex_failed", node_pool_name, line))
    ELSE IF line.csv[4] # "HIB"
    THEN Raised(ValueErrorAt("invalid_hib", node_pool_name, line))
    ELSE parse_relevant_lines(
             Tail(relevant_lines), node_pool_name,
             Append(results,
                    BenchmarkResult(node_pool_name, line.csv[1],
                                    strip(line.csv[2]), line.csv[3],
                                    line.csv[5])))

extract_benchmark_results_from_pod_log(log_lines, node_pool_name) ==
    LET relevant == extract_relevant_log_lines(log_lines, node_pool_name) IN
    IF relevant.st = "err" THEN relevant
    ELSE parse_relevant_lines(relevant.val, node_pool_name, <<>>)

(***************************************************************************)
(* One call of extract_benchmark_results_from_pod_log on an arbitrary log  *)
(***************************************************************************)
\* the line "a - y (u)",HIB,3
SampleCsvLine == CsvLine(<<97>>, <<121, 32>>, <<117>>, "HIB", "3")

LogAlphabet ==
    {TextLine(MARKER_LINE), TestingLine, EmptyLine, VirtualDiskLine,
     ProcessorLine, SampleCsvLine}

Logs == UNION {[1..n -> LogAlphabet] : n \in 0..MaxLogLen}

InitExtract ==
    /\ pc = "extract"
    /\ WaitIdle
    /\ CollectIdle
    /\ pod_log \in Logs
    /\ extract_out = NotCalled

ExtractLog ==
    /\ pc = "extract"
    /\ pc' = "extracted"
    /\ extract_out' = extract_benchmark_results_from_pod_log(pod_log, 1)
    /\ UNCHANGED <<waitVars, pod_log, collectVars>>

NextExtract == ExtractLog

SpecExtract == InitExtract /\ [][NextExtract]_vars


(***************************************************************************)
(* collect_benchmark_results                                               *)
(***************************************************************************)
\* number of node pools in terraform/<provider>/vars.auto.tfvars.json
NumPools == 2

\* get_node_pool_names(): the pools in the order of the JSON file; the names
\* are numbers, and the file lists them in descending order
get_node_pool_names == [i \in 1..NumPools |-> NumPools + 1 - i]

\* str < str in Python: by code point, a proper prefix is smaller
RECURSIVE StrLess(_, _)
StrLess(a, b) ==
    IF b = <<>> THEN FALSE
    ELSE IF a = <<>> THEN TRUE
    ELSE IF Head(a) # Head(b) THEN Head(a) < Head(b)
    ELSE StrLess(Tail(a), Tail(b))

\* tuple < tuple in Python, for the (tool_name, tool_config, result_unit) keys
KeyLess(k1, k2) ==
    \/ StrLess(k1[1], k2[1])
    \/ k1[1] = k2[1] /\ StrLess(k1[2], k2[2])
    \/ k1[1] = k2[1] /\ k1[2] = k2[2] /\ StrLess(k1[3], k2[3])

KeyOf(item) == <<item.tool_name, item.tool_config, item.result_unit>>

\* the set built from every item of every parsed node pool
tool_names_with_config_and_unit ==
    UNION {{KeyOf(benchmark_results[p][i]) : i \in 1..Len(benchmark_results[p])} :
              p \in DOMAIN benchmark_results}

\* variant of SortedKeys: list.sort(reverse=True)
RECURSIVE SortedKeysDescending(_)
SortedKeysDescending(keys) ==
    IF keys = {} THEN <<>>
    ELSE LET k == CHOOSE x \in keys : \A y \in keys \ {x} : KeyLess(y, x)
         IN <<k>> \o SortedKeysDescending(keys \ {k})

\* list(tool_names_with_config_and_unit) followed by .sort()
RECURSIVE SortedKeys(_)
SortedKeys(keys) ==
    IF keys = {} THEN <<>>
    ELSE LET k == CHOOSE x \in keys : \A y \in keys \ {x} : KeyLess(x, y)
         IN <<k>> \o SortedKeys(keys \ {k})

\* float(result_value): the number a text denotes, for the texts float() accepts
IsFloat(text) == text \in {"0", "-2", "3", "7"}
FloatOf(text) ==
    CASE text = "0" -> 0
      [] text = "-2" -> 0 - 2
      [] text = "3" -> 3
      [] text = "7" -> 7

\* round(100 * x / min_value, 2), in hundredths; min_value # 0.
\* Ties between two hundredths go to the even one.
Round2Percent(x, min_value) ==
    LET n == IF min_value < 0 THEN 0 - (10000 * x) ELSE 10000 * x
        d == IF min_value < 0 THEN 0 - min_value ELSE min_value
        fl == n \div d
        r == n - fl * d
    IN  IF 2 * r < d THEN fl
        ELSE IF 2 * r > d THEN fl + 1
        ELSE IF fl % 2 = 0 THEN fl ELSE fl + 1

\* variant of SeqMin: max(normalized_results)
SeqMax(seq) == CHOOSE x \in {seq[i] : i \in 1..Len(seq)} :
                   \A i \in 1..Len(seq) : seq[i] <= x

\* min(normalized_results)
SeqMin(seq) == Min({seq[i] : i \in 1..Len(seq)})

\* the first item of a node pool's list with the given key, 0 when none
FirstMatch(benchmark_result_items, key) ==
    LET hits == {i \in 1..Len(benchmark_result_items) :
                    KeyOf(benchmark_result_items[i]) = key}
    IN IF hits = {} THEN 0 ELSE Min(hits)

\* the inner loop over get_node_pool_names() for one key: the raw texts and
\* the floats collected so far, or the first exception
RECURSIVE collect_row(_, _, _, _)
collect_row(key, i, cells, normalized_results) ==
    IF i > NumPools THEN Returned(<<cells, normalized_results>>)
    ELSE
    LET node_pool_name == get_node_pool_names[i]
        benchmark_result_items == benchmark_results[node_pool_name]
        hit == FirstMatch(benchmark_result_items, key)
    IN
    IF hit = 0
    THEN Raised(ValueErrorAt("result_not_found", node_pool_name,
                             <<key[1], key[2]>>))
    ELSE
    LET result_value == benchmark_result_items[hit].result_value IN
    IF ~IsFloat(result_value)
    THEN Raised(<<"ValueError", "could_not_convert_string_to_float">>)
    ELSE collect_row(key, i + 1, Append(cells, result_value),
                     Append(normalized_results, FloatOf(result_value)))

ZeroDivisionError == <<"ZeroDivisionError">>

\* one iteration of the loop over tool_names_with_config_sorted: the data
\* line of the key, or the exception raised while building it
benchmark_result_line(key) ==
    LET row == collect_row(key, 1, <<>>, <<>>) IN
    IF row.st = "err" THEN row
    ELSE IF ~normalize
    THEN Returned([label |-> key, cells |-> row.val[1], normalized |-> <<>>])
    ELSE
    LET min_value == SeqMin(row.val[2]) IN
    IF min_value = 0 THEN Raised(ZeroDivisionError)
    ELSE Returned([label |-> key, cells |-> row.val[1],
                   normalized |-> [j \in 1..NumPools |->
                                     Round2Percent(row.val[2][j], min_value)]])

header_line ==
    [label |-> <<"Tool name + config + result unit">>,
     cells |-> get_node_pool_names,
     normalized |-> IF normalize THEN get_node_pool_names ELSE <<>>]

(***************************************************************************)
(* The inputs of collect_benchmark_results: one log per node pool.         *)
(***************************************************************************)
\* "ab"
ToolAb == <<97, 98>>
\* "b"
ToolB == <<98>>
\* "y ", as captured before the opening parenthesis
ConfigY == <<121, 32>>
\* "x "
ConfigX == <<120, 32>>
\* "u"
UnitU == <<117>>

ResultValues == {"0", "-2", "3", "7", "abc"}

\* "ab - y (u)",HIB,<value>
LinesOfKeyA == {CsvLine(ToolAb, ConfigY, UnitU, "HIB", v) : v \in ResultValues}
\* "b - x (u)",HIB,3
LinesOfKeyB == {CsvLine(ToolB, ConfigX, UnitU, "HIB", "3")}
\* "b - x (u)",XYZ,3
LineWithOtherTag == CsvLine(ToolB, ConfigX, UnitU, "XYZ", "3")

\* the result sections: no line, one line, or one line of each key in either
\* order; a section with a line of another tag; a section with a non-CSV line
ResultSections ==
    {<<>>}
    \cup {<<a>> : a \in LinesOfKeyA}
    \cup {<<b>> : b \in LinesOfKeyB}
    \cup {<<a, b>> : a \in LinesOfKeyA, b \in LinesOfKeyB}
    \cup {<<b, a>> : a \in LinesOfKeyA, b \in LinesOfKeyB}
    \cup {<<LineWithOtherTag>>, <<ProcessorLine>>}

LogHead ==
    <<TextLine(MARKER_LINE), TestingLine, EmptyLine, ProcessorLine, EmptyLine,
      VirtualDiskLine>>

\* well-formed logs, a log without the marker and a log that ends at the marker
PoolLogs ==
    {LogHead \o section : section \in ResultSections}
    \cup {<<TestingLine, EmptyLine>>, <<ProcessorLine, TextLine(MARKER_LINE)>>}

MappingOrders(n) ==
    {f \in [1..n -> 1..n] : \A i, j \in 1..n : f[i] = f[j] => i = j}

InitCollect ==
    /\ pc = "parse"
    /\ WaitIdle
    /\ ExtractIdle
    /\ \E order \in MappingOrders(NumPools) :
       \E logs \in [1..NumPools -> PoolLogs] :
          pod_logs = [i \in 1..NumPools |-> <<order[i], logs[i]>>]
    /\ normalize \in BOOLEAN
    /\ benchmark_results = <<>>
    /\ tool_names_with_config_sorted = <<>>
    /\ benchmark_result_lines = <<>>
    /\ collect_raised = <<>>
    /\ csv_file = [written |-> FALSE, content |-> <<>>]

\* variant of ParseLog: a log that does not parse contributes no records and
\* the loop goes on
ParseLogSkippingFailures ==
    /\ pc = "parse"
    /\ LET n == Cardinality(DOMAIN benchmark_results)
           node_pool_name == pod_logs[n + 1][1]
           out == extract_benchmark_results_from_pod_log(pod_logs[n + 1][2],
                                                         node_pool_name)
       IN
       /\ benchmark_results' =
              [p \in DOMAIN benchmark_results \cup {node_pool_name} |->
                  IF p = node_pool_name
                  THEN (IF out.st = "err" THEN <<>> ELSE out.val)
                  ELSE benchmark_results[p]]
       /\ pc' = IF n + 1 = Len(pod_logs) THEN "keys" ELSE "parse"
    /\ UNCHANGED <<waitVars, extractVars, pod_logs, normalize, collect_raised,
                   tool_names_with_config_sorted, benchmark_result_lines,
                   csv_file>>

\* one iteration of the first loop: parse the log of the next node pool of
\* the mapping; an exception leaves collect_benchmark_results
ParseLog ==
    /\ pc = "parse"
    /\ LET n == Cardinality(DOMAIN benchmark_results)
           node_pool_name == pod_logs[n + 1][1]
           out == extract_benchmark_results_from_pod_log(pod_logs[n + 1][2],
                                                         node_pool_name)
       IN
       IF out.st = "err"
       THEN /\ collect_raised' = out.err
            /\ pc' = "raised"
            /\ UNCHANGED benchmark_results
       ELSE /\ benchmark_results' =
                  [p \in DOMAIN benchmark_results \cup {node_pool_name} |->
                      IF p = node_pool_name THEN out.val
                      ELSE benchmark_results[p]]
            /\ pc' = IF n + 1 = Len(pod_logs) THEN "keys" ELSE "parse"
            /\ UNCHANGED collect_raised
    /\ UNCHANGED <<waitVars, extractVars, pod_logs, normalize,
                   tool_names_with_config_sorted, benchmark_result_lines,
                   csv_file>>

\* the unique keys, sorted, and the header line
SortKeysAndHeader ==
    /\ pc = "keys"
    /\ tool_names_with_config_sorted' =
           SortedKeys(tool_names_with_config_and_unit)
    /\ benchmark_result_lines' = <<header_line>>
    /\ pc' = "rows"
    /\ UNCHANGED <<waitVars, extractVars, pod_logs, normalize,
                   benchmark_results, collect_raised, csv_file>>

\* one iteration of the loop over the sorted keys
AppendResultLine ==
    /\ pc = "rows"
    /\ Len(benchmark_result_lines) - 1 < Len(tool_names_with_config_sorted)
    /\ LET key == tool_names_with_config_sorted[Len(benchmark_result_lines)]
           out == benchmark_result_line(key)
       IN
       IF out.st = "err"
       THEN /\ collect_raised' = out.err
            /\ pc' = "raised"
            /\ UNCHANGED benchmark_result_lines
       ELSE /\ benchmark_result_lines' = Append(benchmark_result_lines, out.val)
            /\ UNCHANGED <<pc, collect_raised>>
    /\ UNCHANGED <<waitVars, extractVars, pod_logs, normalize,
                   benchmark_results, tool_names_with_config_sorted, csv_file>>

\* return "\n".join(benchmark_result_lines), and __main__ writes it to
\* benchmark_results.csv
WriteCsv ==
    /\ pc = "rows"
    /\ Len(benchmark_result_lines) - 1 = Len(tool_names_with_config_sorted)
    /\ csv_file' = [written |-> TRUE, content |-> benchmark_result_lines]
    /\ pc' = "written"
    /\ UNCHANGED <<waitVars, extractVars, pod_logs, normalize,
                   benchmark_results, tool_names_with_config_sorted,
                   benchmark_result_lines, collect_raised>>

NextCollect ==
    \/ ParseLog
    \/ SortKeysAndHeader
    \/ AppendResultLine
    \/ WriteCsv

SpecCollect == InitCollect /\ [][NextCollect]_vars


(***************************************************************************)
(* Properties of extract_benchmark_results_from_pod_log                    *)
(***************************************************************************)
\* the grammar error a raised exception stands for, "other" when none
GrammarErrorOf(err) ==
    IF err[1] # "ValueError" THEN "other"
    ELSE CASE err[2] = "marker_not_found" -> "MarkerNotFound"
           [] err[2] \in {"testing_line_missing", "empty_line_missing",
                           "virtual_disk_line_missing"} -> "MalformedHeader"
           [] err[2] = "next_empty_line_not_found" -> "SeparatorNotFound"
           [] err[2] = "regex_failed" -> "RecordParseError"
           [] err[2] = "invalid_hib" -> "UnexpectedTagError"
           [] OTHER -> "other"

\* the verdict of the five header stages of the grammar on a log, "ok" when
\* the header is well formed; a line the log does not have fails its stage
HeaderVerdict(log) ==
    LET n == Len(log)
        markers == {i \in 1..n : log[i].text = "benchmarkresult"}
    IN
    IF markers = {} THEN "MarkerNotFound"
    ELSE
    LET m == CHOOSE i \in markers : \A j \in markers : i <= j IN
    IF m + 1 > n \/ ~ContainsTesting(log[m + 1]) THEN "MalformedHeader"
    ELSE IF m + 2 > n \/ log[m + 2] # EmptyLine THEN "MalformedHeader"
    ELSE
    LET seps == {i \in (m + 3)..n : log[i] = EmptyLine} IN
    IF seps = {} THEN "SeparatorNotFound"
    ELSE
    LET e == CHOOSE i \in seps : \A j \in seps : i <= j IN
    IF e + 1 > n \/ ~ContainsVirtualDisk(log[e + 1]) THEN "MalformedHeader"
    ELSE "ok"

\* C5: on every log the call either returns the records or raises one of the
\* named grammar errors, the header errors being those the grammar's stages
\* give (a missing line failing its stage like a wrong one); nothing else is
\* raised.
C5_OnlyNamedGrammarErrors ==
    pc = "extracted" =>
        LET verdict == HeaderVerdict(pod_log) IN
        IF verdict # "ok"
        THEN extract_out.st = "err" /\ GrammarErrorOf(extract_out.err) = verdict
        ELSE \/ extract_out.st = "ok"
             \/ /\ extract_out.st = "err"
                /\ GrammarErrorOf(extract_out.err)
                      \in {"RecordParseError", "UnexpectedTagError"}

(***************************************************************************)
(* Properties of collect_benchmark_results and of the write of its result  *)
(***************************************************************************)
PoolNames == {get_node_pool_names[i] : i \in 1..NumPools}

\* whether a log parses
Parses(log) == extract_benchmark_results_from_pod_log(log, 0).st = "ok"
AllLogsParse == \A i \in 1..Len(pod_logs) : Parses(pod_logs[i][2])

\* the data lines appended so far
DataLines ==
    IF benchmark_result_lines = <<>> THEN <<>>
    ELSE Tail(benchmark_result_lines)

\* the keys some parsed record has
ObservedKeys ==
    {<<r.tool_name, r.tool_config, r.result_unit>> :
        r \in UNION {{benchmark_results[p][i] :
                         i \in 1..Len(benchmark_results[p])} :
                     p \in DOMAIN benchmark_results}}

\* node pool p has a record for key k
HasRecord(p, k) ==
    \E i \in 1..Len(benchmark_results[p]) :
        /\ benchmark_results[p][i].tool_name = k[1]
        /\ benchmark_results[p][i].tool_config = k[2]
        /\ benchmark_results[p][i].result_unit = k[3]

\* the text of the first record of node pool p with key k
TextOf(p, k) ==
    LET i == CHOOSE i \in 1..Len(benchmark_results[p]) :
                 /\ <<benchmark_results[p][i].tool_name,
                      benchmark_results[p][i].tool_config,
                      benchmark_results[p][i].result_unit>> = k
                 /\ \A j \in 1..(i - 1) :
                       <<benchmark_results[p][j].tool_name,
                         benchmark_results[p][j].tool_config,
                         benchmark_results[p][j].result_unit>> # k
    IN benchmark_results[p][i].result_value

\* C3: the file is written only with the complete table of a run in which
\* every log parsed and every (key, node pool) cell was found; a run that
\* raises writes nothing; and when some log does not parse, no line of the
\* table, header included, is ever built.
C3_AllOrNothing ==
    /\ csv_file.written <=> pc = "written"
    /\ pc = "raised" <=> collect_raised # <<>>
    /\ ~AllLogsParse => benchmark_result_lines = <<>> /\ ~csv_file.written
    /\ csv_file.written =>
          /\ collect_raised = <<>>
          /\ AllLogsParse
          /\ DOMAIN benchmark_results = PoolNames
          /\ csv_file.content = benchmark_result_lines
          /\ {DataLines[i].label : i \in 1..Len(DataLines)} = ObservedKeys
          /\ Len(DataLines) = Cardinality(ObservedKeys)
          /\ \A i \in 1..Len(DataLines) :
                /\ Len(DataLines[i].cells) = NumPools
                /\ \A p \in PoolNames : HasRecord(p, DataLines[i].label)

C3_Witness ==
    /\ pc = "raised"
    /\ ~AllLogsParse
    /\ \E i \in 1..Len(pod_logs) :
          /\ Parses(pod_logs[i][2])
          /\ Len(pod_logs[i][2]) > Len(LogHead)

\* C4: when every log parsed and some node pool has no record for a key some
\* other pool has, the run ends with the missing-result error, and the error
\* names a node pool and the tool and configuration of a key that pool lacks;
\* no data line has fewer cells than there are node pools.
C4_MissingResultErrorNamesPoolAndKey ==
    /\ \A i \in 1..Len(DataLines) : Len(DataLines[i].cells) = NumPools
    /\ (/\ pc \in {"raised", "written"}
        /\ AllLogsParse
        /\ \E p \in PoolNames, k \in ObservedKeys : ~HasRecord(p, k))
       => /\ pc = "raised"
          /\ Len(collect_raised) = 4
          /\ collect_raised[2] = "result_not_found"
          /\ \E p \in PoolNames, k \in ObservedKeys :
                /\ ~HasRecord(p, k)
                /\ collect_raised[3] = p
                /\ collect_raised[4] = <<k[1], k[2]>>

\* C6: with normalization off no value is parsed as a number, so the error of
\* a text that is no number is never raised, and every cell written is the
\* text of the record.
C6_NoNumericParsingWithoutNormalize ==
    ~normalize =>
        /\ pc = "raised" /\ Len(collect_raised) >= 2
              => collect_raised[2] # "could_not_convert_string_to_float"
        /\ \A i \in 1..Len(DataLines) : \A c \in 1..NumPools :
              DataLines[i].cells[c] =
                  TextOf(get_node_pool_names[c], DataLines[i].label)

\* C7: the data lines are in strictly ascending order of their keys (the
\* "ab" key before the "b" key), the written table has one line per observed
\* key, and the cells of every line (and of the header) follow
\* get_node_pool_names(), whatever the order of the mapping and of the
\* records in the logs.
C7_RowsSortedColumnsCanonical ==
    /\ \A i, j \in 1..Len(DataLines) :
          i < j => /\ KeyLess(DataLines[i].label, DataLines[j].label)
                   /\ ~(DataLines[i].label[1] = <<98>>
                        /\ DataLines[j].label[1] = <<97, 98>>)
    /\ benchmark_result_lines # <<>> =>
          benchmark_result_lines[1].cells = [c \in 1..NumPools |-> NumPools + 1 - c]
    /\ \A i \in 1..Len(DataLines) : \A c \in 1..NumPools :
          DataLines[i].cells[c] = TextOf(NumPools + 1 - c, DataLines[i].label)
    /\ pc = "written" =>
          {DataLines[i].label : i \in 1..Len(DataLines)} = ObservedKeys

C7_Witness ==
    /\ pc = "written"
    /\ Len(DataLines) = 2
    /\ pod_logs[1][1] # get_node_pool_names[1]
    /\ \E i \in 1..Len(pod_logs) :
          /\ Len(benchmark_results[pod_logs[i][1]]) = 2
          /\ benchmark_results[pod_logs[i][1]][1].tool_name = <<98>>
    /\ \E c \in 1..NumPools : DataLines[1].cells[c] # DataLines[1].cells[1]

\* the numbers of the cells of a data line
NumberOf(text) ==
    CASE text = "0" -> 0 [] text = "-2" -> 0 - 2 [] text = "3" -> 3
      [] text = "7" -> 7
Numeric(text) == text \in {"0", "-2", "3", "7"}
Abs(x) == IF x < 0 THEN 0 - x ELSE x

\* the key whose line is being built when the loop over the keys raises
KeyInProgress == tool_names_with_config_sorted[Len(benchmark_result_lines)]
RaisedInRows ==
    /\ pc = "raised"
    /\ benchmark_result_lines # <<>>
    /\ Len(benchmark_result_lines) <= Len(tool_names_with_config_sorted)
AllNumeric(k) ==
    \A p \in PoolNames : HasRecord(p, k) /\ Numeric(TextOf(p, k))
RowMinimum(k) ==
    CHOOSE m \in {NumberOf(TextOf(p, k)) : p \in PoolNames} :
        \A p \in PoolNames : m <= NumberOf(TextOf(p, k))

\* in hundredths: h is 100 * v / m rounded to two decimals
IsRounded(h, v, m) == 2 * Abs(h * m - 10000 * v) <= Abs(m)

NormalizedAsClaimed(line) ==
    LET m == RowMinimum(line.label) IN
    \A c \in 1..NumPools :
        LET v == NumberOf(line.cells[c]) IN
        /\ v = m => line.normalized[c] = 10000
        /\ m # 0 => IsRounded(line.normalized[c], v, m)

====
